---- MODULE Spec2Model ----
(***************************************************************************)
(* The concordance pipeline of concordance.py: split_sentences ->          *)
(* tally_words -> count_words -> sorted OrderedDict, driven by             *)
(* generate_concordance.  Strings are sequences of code points; a Python   *)
(* list object is addressed by a reference, so that the tuples emitted by  *)
(* tally_words alias the accumulator's lists as they do in the code.       *)
(***************************************************************************)
EXTENDS Integers, Sequences, FiniteSets, TLC

\* Bound: the number of symbols (characters and sentence ends) of a generated input.
MaxChars == 5

\* Bound: the number of symbols of the first input of two interleaved calls.
MaxIsoChars == 3

\* Bound: the number of tuples of a stream given to count_words alone.
MaxTuples == 3

\* The characters generated inputs are made of: ' ', '.', 'B', 'a'.
Alphabet == {32, 46, 66, 97}

\* The two calls of generate_concordance a behaviour makes.
Runs == {1, 2}

----------------------------------------------------------------------------
\* Character classes of the Python runtime.

\* string.punctuation: !"#$%&'()*+,-./:;<=>?@[\]^_`{|}~
punctuationWithDashes == (33..47) \cup (58..64) \cup (91..96) \cup (123..126) \cup {8211, 8212}
punctuation == (33..47) \cup (58..64) \cup (91..96) \cup (123..126)

\* The characters str.split() with no argument splits on (str.isspace).
whitespace == (9..13) \cup (28..32) \cup {133, 160}

KeepCase(c) == c
\* str.lower() on one character (ASCII letters; the other characters of the
\* model have no lower-case form).
LowerChar(c) == IF c \in 65..90 THEN c + 32 ELSE c

lower(w) == [i \in 1..Len(w) |-> LowerChar(w[i])]

\* str.strip(chars): drop the leading, then the trailing characters in chars.
RECURSIVE lstrip(_, _)
lstrip(w, chars) ==
    IF w # <<>> /\ Head(w) \in chars THEN lstrip(Tail(w), chars) ELSE w

RECURSIVE rstrip(_, _)
rstrip(w, chars) ==
    IF w # <<>> /\ w[Len(w)] \in chars
    THEN rstrip(SubSeq(w, 1, Len(w) - 1), chars)
    ELSE w

strip(w, chars) == rstrip(lstrip(w, chars), chars)

\* str.split(): skip whitespace, collect each maximal run of other characters.
RECURSIVE SplitFrom(_, _, _)
SplitFrom(s, cur, acc) ==
    IF s = <<>>
    THEN IF cur = <<>> THEN acc ELSE Append(acc, cur)
    ELSE IF Head(s) \in whitespace
         THEN SplitFrom(Tail(s), <<>>, IF cur = <<>> THEN acc ELSE Append(acc, cur))
         ELSE SplitFrom(Tail(s), Append(cur, Head(s)), acc)

splitDroppingPunctuation(s) ==
    SelectSeq(SplitFrom(s, <<>>, <<>>), LAMBDA w : lstrip(w, punctuation) # <<>>)
splitReversed(s) ==
    LET ws == SplitFrom(s, <<>>, <<>>) IN [i \in 1..Len(ws) |-> ws[Len(ws) + 1 - i]]
split(s) == SplitFrom(s, <<>>, <<>>)

\* w.strip(string.punctuation).lower()
NormalizeWord(w) == lower(strip(w, punctuation))

----------------------------------------------------------------------------
\* Ordering of words and Python's sorted().

\* str.__lt__: compare code point by code point; a proper prefix is smaller.
RECURSIVE WordLess(_, _)
WordLess(a, b) ==
    IF b = <<>> THEN FALSE
    ELSE IF a = <<>> THEN TRUE
    ELSE IF Head(a) # Head(b) THEN Head(a) < Head(b)
    ELSE WordLess(Tail(a), Tail(b))

\* One insertion of a stable sort by key x[0]: the item goes after every item
\* whose key is not greater.
RECURSIVE InsertItem(_, _)
InsertItem(item, s) ==
    IF s = <<>> THEN <<item>>
    ELSE IF WordLess(item[1], Head(s)[1])
         THEN <<item>> \o s
         ELSE <<Head(s)>> \o InsertItem(item, Tail(s))

RECURSIVE SortFrom(_, _)
SortFrom(items, acc) ==
    IF items = <<>> THEN acc
    ELSE SortFrom(Tail(items), InsertItem(Head(items), acc))

\* sorted(word_count.items(), key=lambda x: x[0])
UnsortedItems(items) == items
sorted(items) == SortFrom(items, <<>>)

----------------------------------------------------------------------------
\* Python dict (insertion-ordered) as the sequence of its items <<key, value>>.

Keys(d) == {d[i][1] : i \in 1..Len(d)}

DictGet(d, k) == d[CHOOSE i \in 1..Len(d) : d[i][1] = k][2]

\* d[k] = v: an existing key keeps its position, a new key goes last.
DictKeepFirst(d, k, v) == IF k \in Keys(d) THEN d ELSE Append(d, <<k, v>>)
DictSet(d, k, v) ==
    IF k \in Keys(d)
    THEN [i \in 1..Len(d) |-> IF d[i][1] = k THEN <<k, v>> ELSE d[i]]
    ELSE Append(d, <<k, v>>)

\* table[word].append(idx) on a defaultdict(list): a missing key is created
\* with an empty list first; the list object of a key is never replaced.
AppendDeduplicated(t, word, idx) ==
    IF word \in DOMAIN t
    THEN IF \E j \in 1..Len(t[word]) : t[word][j] = idx
         THEN t
         ELSE [t EXCEPT ![word] = Append(@, idx)]
    ELSE t @@ (word :> <<idx>>)
PrependIndex(t, word, idx) ==
    IF word \in DOMAIN t
    THEN [t EXCEPT ![word] = <<idx>> \o @]
    ELSE t @@ (word :> <<idx>>)
AppendIndex(t, word, idx) ==
    IF word \in DOMAIN t
    THEN [t EXCEPT ![word] = Append(@, idx)]
    ELSE t @@ (word :> <<idx>>)

----------------------------------------------------------------------------
\* Inputs.

\* A generated input is a string over Alphabet and 0, the end of a sentence;
\* the characters after the last 0, if any, are a sentence too.
RECURSIVE SentencesFrom(_, _, _)
SentencesFrom(flat, cur, acc) ==
    IF flat = <<>>
    THEN IF cur = <<>> THEN acc ELSE Append(acc, cur)
    ELSE IF Head(flat) = 0
         THEN SentencesFrom(Tail(flat), <<>>, Append(acc, cur))
         ELSE SentencesFrom(Tail(flat), Append(cur, Head(flat)), acc)

Generated ==
    { SentencesFrom(f, <<>>, <<>>) :
        f \in UNION { [1..n -> Alphabet \cup {0}] : n \in 0..MaxChars } }

\* "The cat sat.", "The dog sat!"
TheCatSat == <<84, 104, 101, 32, 99, 97, 116, 32, 115, 97, 116, 46>>
TheDogSat == <<84, 104, 101, 32, 100, 111, 103, 32, 115, 97, 116, 33>>
\* "A a A."
AaA == <<65, 32, 97, 32, 65, 46>>
\* The em-dash U+2014 and the ASCII hyphen-minus.
EmDash == <<8212>>
Hyphen == <<45>>

Scenarios ==
    { <<TheCatSat, TheDogSat>>, <<AaA>>, <<EmDash>>, <<Hyphen>>,
      <<<<98>>, <<97>>>> }

Inputs == Generated \cup Scenarios

----------------------------------------------------------------------------
\* State.

VARIABLES
    istream,       \* the sentences handed to generate_concordance
    heap,          \* the defaultdict(list) objects allocated so far, by id
    pc,            \* per run: NotStarted, Streaming, Aggregated, Ordered, Done
    tally_hash,    \* per run: the id of its accumulator in heap (0: none yet)
    pulled,        \* per run: how many sentences enumerate() has pulled
    idx,           \* per run: split_sentences' current idx
    words,         \* per run: the tokens of s.split() not yet yielded
    stage,         \* per run: the generator that runs next: split, tally, count
    pair,          \* per run: the (word, idx) split_sentences last yielded
    tuple,         \* per run: the (word, count, indices) tally_words last yielded
    word_count,    \* per run: count_words' table, word -> (count, reference)
    ordered_count, \* per run: the OrderedDict built from the sorted items
    result,        \* per run: the concordance as the caller reads it on return
    emitted,       \* per run: every pair split_sentences has yielded, in order
    other,         \* the sentences handed to the second call
    tokenized,     \* Tokenizer: the list from_text returned
    yielded,       \* Tokenizer: what stream_tokens has yielded, in order
    tok_pc,        \* Tokenizer: idle, streaming, ended
    tallied        \* count_words alone: the stream of tuples it is given

vars == <<istream, heap, pc, tally_hash, pulled, idx, words, stage, pair,
          tuple, word_count, ordered_count, result, emitted, other,
          tokenized, yielded, tok_pc, tallied>>

\* What the steps of a call of generate_concordance leave alone.
outside == <<other, tokenized, yielded, tok_pc, tallied>>

\* The sentences the call r was given.
Source(r) == IF r = 1 THEN istream ELSE other

\* The list a reference <<table id, word>> points to, as it is now.
Deref(h, ref) == h[ref[1]][ref[2]]

\* An OrderedDict of (count, reference) read through the references.
ReadItems(h, od) ==
    [i \in 1..Len(od) |->
        [word |-> od[i][1], count |-> od[i][2][1], indices |-> Deref(h, od[i][2][2])]]

\* tally_hash = defaultdict(list): the id of the object the call works on.
SharedTable(h) == 1
NewTable(h) == Len(h) + 1

NoCall ==
    /\ heap = <<>>
    /\ pc = [r \in Runs |-> "NotStarted"]
    /\ tally_hash = [r \in Runs |-> 0]
    /\ pulled = [r \in Runs |-> 0]
    /\ idx = [r \in Runs |-> 0]
    /\ words = [r \in Runs |-> <<>>]
    /\ stage = [r \in Runs |-> "split"]
    /\ pair = [r \in Runs |-> <<>>]
    /\ tuple = [r \in Runs |-> <<>>]
    /\ word_count = [r \in Runs |-> <<>>]
    /\ ordered_count = [r \in Runs |-> <<>>]
    /\ result = [r \in Runs |-> <<>>]
    /\ emitted = [r \in Runs |-> <<>>]

NoTokenizer == tokenized = <<>> /\ yielded = <<>> /\ tok_pc = "idle"

\* Two calls, one after the other, on the same sentences.
Init ==
    /\ istream \in Inputs
    /\ other = istream
    /\ NoCall
    /\ NoTokenizer
    /\ tallied = <<>>

\* generate_concordance is entered: the generators are created (none runs yet),
\* the accumulator is allocated and count_words starts with an empty table.
Enter(r) ==
    /\ pc[r] = "NotStarted"
    /\ LET id == NewTable(heap) IN
        /\ heap' = IF id > Len(heap) THEN Append(heap, <<>>) ELSE heap
        /\ tally_hash' = [tally_hash EXCEPT ![r] = id]
    /\ pc' = [pc EXCEPT ![r] = "Streaming"]
    /\ stage' = [stage EXCEPT ![r] = "split"]
    /\ word_count' = [word_count EXCEPT ![r] = <<>>]
    /\ UNCHANGED <<istream, pulled, idx, words, pair, tuple, ordered_count,
                   result, emitted, outside>>

\* A call starts when the call before it has returned.
Call(r) ==
    /\ \A q \in Runs : q < r => pc[q] = "Done"
    /\ Enter(r)

NextSentencePrefetch(r) ==
    /\ pc[r] = "Streaming" /\ stage[r] = "split"
    /\ Len(words[r]) <= 1
    /\ pulled[r] < Len(Source(r))
    /\ idx' = [idx EXCEPT ![r] = IF words[r] = <<>> THEN pulled[r] ELSE @]
    /\ pulled' = [pulled EXCEPT ![r] = @ + 1]
    /\ words' = [words EXCEPT ![r] = @ \o split(Source(r)[pulled[r] + 1])]
    /\ UNCHANGED <<istream, heap, pc, tally_hash, stage, pair, tuple,
                   word_count, ordered_count, result, emitted, outside>>

NextSentenceDenseIndex(r) ==
    /\ pc[r] = "Streaming" /\ stage[r] = "split"
    /\ words[r] = <<>>
    /\ pulled[r] < Len(Source(r))
    /\ idx' = [idx EXCEPT ![r] =
                 Cardinality({ j \in 1..pulled[r] : split(Source(r)[j]) # <<>> })]
    /\ pulled' = [pulled EXCEPT ![r] = @ + 1]
    /\ words' = [words EXCEPT ![r] = split(Source(r)[pulled[r] + 1])]
    /\ UNCHANGED <<istream, heap, pc, tally_hash, stage, pair, tuple,
                   word_count, ordered_count, result, emitted, outside>>

\* split_sentences pulls the next sentence from enumerate(stream) and splits it.
NextSentence(r) ==
    /\ pc[r] = "Streaming" /\ stage[r] = "split"
    /\ words[r] = <<>>
    /\ pulled[r] < Len(Source(r))
    /\ idx' = [idx EXCEPT ![r] = pulled[r]]
    /\ pulled' = [pulled EXCEPT ![r] = @ + 1]
    /\ words' = [words EXCEPT ![r] = split(Source(r)[pulled[r] + 1])]
    /\ UNCHANGED <<istream, heap, pc, tally_hash, stage, pair, tuple,
                   word_count, ordered_count, result, emitted, outside>>

\* split_sentences yields the next word of the current sentence.
SplitYield(r) ==
    /\ pc[r] = "Streaming" /\ stage[r] = "split"
    /\ words[r] # <<>>
    /\ LET p == <<NormalizeWord(Head(words[r])), idx[r]>> IN
        /\ pair' = [pair EXCEPT ![r] = p]
        /\ emitted' = [emitted EXCEPT ![r] = Append(@, p)]
    /\ words' = [words EXCEPT ![r] = Tail(@)]
    /\ stage' = [stage EXCEPT ![r] = "tally"]
    /\ UNCHANGED <<istream, heap, pc, tally_hash, pulled, idx, tuple,
                   word_count, ordered_count, result, outside>>

TallyYieldCountBefore(r) ==
    /\ pc[r] = "Streaming" /\ stage[r] = "tally"
    /\ LET word == pair[r][1]
           id == tally_hash[r]
           table == AppendIndex(heap[id], word, pair[r][2])
       IN
        /\ heap' = [heap EXCEPT ![id] = table]
        /\ tuple' = [tuple EXCEPT ![r] = <<word, Len(table[word]) - 1, <<id, word>>>>]
    /\ stage' = [stage EXCEPT ![r] = "count"]
    /\ UNCHANGED <<istream, pc, tally_hash, pulled, idx, words, pair,
                   word_count, ordered_count, result, emitted, outside>>

\* tally_words appends the index and yields the word, the length of its list
\* and the list itself (a reference, not a copy).
TallyYield(r) ==
    /\ pc[r] = "Streaming" /\ stage[r] = "tally"
    /\ LET word == pair[r][1]
           id == tally_hash[r]
           table == AppendIndex(heap[id], word, pair[r][2])
       IN
        /\ heap' = [heap EXCEPT ![id] = table]
        /\ tuple' = [tuple EXCEPT ![r] = <<word, Len(table[word]), <<id, word>>>>]
    /\ stage' = [stage EXCEPT ![r] = "count"]
    /\ UNCHANGED <<istream, pc, tally_hash, pulled, idx, words, pair,
                   word_count, ordered_count, result, emitted, outside>>

\* count_words stores the tuple under its word.
CountStore(r) ==
    /\ pc[r] = "Streaming" /\ stage[r] = "count"
    /\ word_count' = [word_count EXCEPT
                        ![r] = DictSet(@, tuple[r][1], <<tuple[r][2], tuple[r][3]>>)]
    /\ stage' = [stage EXCEPT ![r] = "split"]
    /\ UNCHANGED <<istream, heap, pc, tally_hash, pulled, idx, words, pair,
                   tuple, ordered_count, result, emitted, outside>>

ExhaustedUnlessEmpty(r) ==
    /\ pc[r] = "Streaming" /\ stage[r] = "split"
    /\ words[r] = <<>>
    /\ pulled[r] = Len(Source(r))
    /\ pulled[r] > 0
    /\ pc' = [pc EXCEPT ![r] = "Aggregated"]
    /\ UNCHANGED <<istream, heap, tally_hash, pulled, idx, words, stage, pair,
                   tuple, word_count, ordered_count, result, emitted, outside>>

ExhaustedEarly(r) ==
    /\ pc[r] = "Streaming" /\ stage[r] = "split"
    /\ words[r] = <<>>
    /\ pulled[r] = Len(Source(r)) \/ pulled[r] >= 1
    /\ pc' = [pc EXCEPT ![r] = "Aggregated"]
    /\ UNCHANGED <<istream, heap, tally_hash, pulled, idx, words, stage, pair,
                   tuple, word_count, ordered_count, result, emitted, outside>>

\* The stream is exhausted: StopIteration ends the three loops and count_words
\* returns its table.
Exhausted(r) ==
    /\ pc[r] = "Streaming" /\ stage[r] = "split"
    /\ words[r] = <<>>
    /\ pulled[r] = Len(Source(r))
    /\ pc' = [pc EXCEPT ![r] = "Aggregated"]
    /\ UNCHANGED <<istream, heap, tally_hash, pulled, idx, words, stage, pair,
                   tuple, word_count, ordered_count, result, emitted, outside>>

\* ordered_count = OrderedDict(sorted(word_count.items(), key=lambda x: x[0]))
Sort(r) ==
    /\ pc[r] = "Aggregated"
    /\ ordered_count' = [ordered_count EXCEPT ![r] = sorted(word_count[r])]
    /\ pc' = [pc EXCEPT ![r] = "Ordered"]
    /\ UNCHANGED <<istream, heap, tally_hash, pulled, idx, words, stage, pair,
                   tuple, word_count, result, emitted, outside>>

\* return ordered_count
Return(r) ==
    /\ pc[r] = "Ordered"
    /\ result' = [result EXCEPT ![r] = ReadItems(heap, ordered_count[r])]
    /\ pc' = [pc EXCEPT ![r] = "Done"]
    /\ UNCHANGED <<istream, heap, tally_hash, pulled, idx, words, stage, pair,
                   tuple, word_count, ordered_count, emitted, outside>>

Step(r) ==
        \/ Call(r)
        \/ NextSentence(r)
        \/ SplitYield(r)
        \/ TallyYield(r)
        \/ CountStore(r)
        \/ Exhausted(r)
        \/ Sort(r)
        \/ Return(r)

Next == \E r \in Runs : Step(r)

Spec == Init /\ [][Next]_vars

\* The source raises instead of handing over its next sentence: nothing in
\* split_sentences, tally_words, count_words or generate_concordance catches
\* the exception, so it leaves generate_concordance.
SourceRaisesSkipped(r) ==
    /\ pc[r] = "Streaming" /\ stage[r] = "split"
    /\ words[r] = <<>>
    /\ pulled[r] < Len(Source(r))
    /\ pulled' = [pulled EXCEPT ![r] = @ + 1]
    /\ UNCHANGED <<istream, heap, pc, tally_hash, idx, words, stage, pair,
                   tuple, word_count, ordered_count, result, emitted, outside>>

SourceRaises(r) ==
    /\ pc[r] = "Streaming" /\ stage[r] = "split"
    /\ words[r] = <<>>
    /\ pc' = [pc EXCEPT ![r] = "Failed"]
    /\ UNCHANGED <<istream, heap, tally_hash, pulled, idx, words, stage, pair,
                   tuple, word_count, ordered_count, result, emitted, outside>>

NextFailing ==
    \/ Next
    \/ \E r \in Runs : SourceRaises(r)

\* Calls whose source may raise at any sentence.
SpecFailing == Init /\ [][NextFailing]_vars

\* A call runs synchronously to its end: a step that can be taken is taken.
FairSpec == Spec /\ WF_vars(Next)

----------------------------------------------------------------------------
\* Tokenizer.stream_tokens, on its own.

pipeline == <<istream, heap, pc, tally_hash, pulled, idx, words, stage, pair,
              tuple, word_count, ordered_count, result, emitted, other, tallied>>

\* The first next(): from_text(text) returns the collaborator's list of
\* sentences, whatever it is.
StreamStart ==
    /\ tok_pc = "idle"
    /\ \E l \in Inputs : tokenized' = l
    /\ tok_pc' = "streaming"
    /\ UNCHANGED <<yielded, pipeline>>

StreamYieldStripped ==
    /\ tok_pc = "streaming"
    /\ Len(yielded) < Len(tokenized)
    /\ yielded' = Append(yielded, strip(tokenized[Len(yielded) + 1], whitespace))
    /\ UNCHANGED <<tokenized, tok_pc, pipeline>>

\* for token in self.from_text(text): yield token
StreamYield ==
    /\ tok_pc = "streaming"
    /\ Len(yielded) < Len(tokenized)
    /\ yielded' = Append(yielded, tokenized[Len(yielded) + 1])
    /\ UNCHANGED <<tokenized, tok_pc, pipeline>>

\* The list is exhausted and the generator ends.
StreamEnd ==
    /\ tok_pc = "streaming"
    /\ Len(yielded) = Len(tokenized)
    /\ tok_pc' = "ended"
    /\ UNCHANGED <<tokenized, yielded, pipeline>>

InitTokenizer ==
    /\ istream = <<>> /\ other = <<>> /\ tallied = <<>>
    /\ NoCall
    /\ NoTokenizer

NextTokenizer == StreamStart \/ StreamYield \/ StreamEnd

SpecTokenizer == InitTokenizer /\ [][NextTokenizer]_vars

----------------------------------------------------------------------------
\* count_words on its own, given any stream of (word, count, indices) tuples.

\* The tuples of the streams: the words "", "a", "b" with counts and index
\* lists of any kind.
Tuples == {<<>>, <<97>>, <<98>>} \X {1, 2} \X {<<0>>, <<0, 1>>}

TupleStreams == UNION { [1..n -> Tuples] : n \in 0..MaxTuples }

InitCount ==
    /\ tallied \in TupleStreams
    /\ istream = <<>> /\ other = <<>>
    /\ heap = <<>>
    /\ pc = [r \in Runs |-> IF r = 1 THEN "Streaming" ELSE "NotStarted"]
    /\ tally_hash = [r \in Runs |-> 0]
    /\ pulled = [r \in Runs |-> 0]
    /\ idx = [r \in Runs |-> 0]
    /\ words = [r \in Runs |-> <<>>]
    /\ stage = [r \in Runs |-> "split"]
    /\ pair = [r \in Runs |-> <<>>]
    /\ tuple = [r \in Runs |-> <<>>]
    /\ word_count = [r \in Runs |-> <<>>]
    /\ ordered_count = [r \in Runs |-> <<>>]
    /\ result = [r \in Runs |-> <<>>]
    /\ emitted = [r \in Runs |-> <<>>]
    /\ NoTokenizer

\* for word, count, indices in stream: the loop takes the next tuple.
NextTuple ==
    /\ pc[1] = "Streaming" /\ stage[1] = "split"
    /\ pulled[1] < Len(tallied)
    /\ tuple' = [tuple EXCEPT ![1] = tallied[pulled[1] + 1]]
    /\ pulled' = [pulled EXCEPT ![1] = @ + 1]
    /\ stage' = [stage EXCEPT ![1] = "count"]
    /\ UNCHANGED <<istream, heap, pc, tally_hash, idx, words, pair, word_count,
                   ordered_count, result, emitted, outside>>

\* The stream is exhausted: return table.
ReturnTable ==
    /\ pc[1] = "Streaming" /\ stage[1] = "split"
    /\ pulled[1] = Len(tallied)
    /\ pc' = [pc EXCEPT ![1] = "Aggregated"]
    /\ UNCHANGED <<istream, heap, tally_hash, pulled, idx, words, stage, pair,
                   tuple, word_count, ordered_count, result, emitted, outside>>

NextCount ==
    \/ NextTuple
    \/ CountStore(1)
    \/ ReturnTable

SpecCount == InitCount /\ [][NextCount]_vars

----------------------------------------------------------------------------
\* Two calls on different sentences, their steps interleaved in any order.

IsolationInputs ==
    { SentencesFrom(f, <<>>, <<>>) :
        f \in UNION { [1..n -> Alphabet \cup {0}] : n \in 0..MaxIsoChars } }

\* [], ["a"], ["a", "B a."], ["B", "", "a"]
OtherInputs ==
    { <<>>, <<<<97>>>>, <<<<97>>, <<66, 32, 97, 46>>>>, <<<<66>>, <<>>, <<97>>>> }

InitInterleaved ==
    /\ istream \in IsolationInputs
    /\ other \in OtherInputs
    /\ NoCall
    /\ NoTokenizer
    /\ tallied = <<>>

InterleavedStep(r) ==
    \/ Enter(r)
    \/ NextSentence(r)
    \/ SplitYield(r)
    \/ TallyYield(r)
    \/ CountStore(r)
    \/ Exhausted(r)
    \/ Sort(r)
    \/ Return(r)

NextInterleaved == \E r \in Runs : InterleavedStep(r)

SpecInterleaved == InitInterleaved /\ [][NextInterleaved]_vars

----------------------------------------------------------------------------
\* What the properties are stated in: tokens and their normal form, read off
\* the text directly.

\* The maximal runs of non-whitespace characters of s, as <<first, last>>.
TokenSpans(s) ==
    { sp \in (1..Len(s)) \X (1..Len(s)) :
        /\ sp[1] <= sp[2]
        /\ \A k \in sp[1]..sp[2] : s[k] \notin whitespace
        /\ (sp[1] = 1 \/ s[sp[1] - 1] \in whitespace)
        /\ (sp[2] = Len(s) \/ s[sp[2] + 1] \in whitespace) }

\* The token s[a..b] without its leading and trailing ASCII punctuation, in
\* lower case.
NormalForm(s, sp) ==
    LET keep == { k \in sp[1]..sp[2] : s[k] \notin punctuation } IN
    IF keep = {} THEN <<>>
    ELSE LET a == CHOOSE k \in keep : \A j \in keep : k <= j
             b == CHOOSE k \in keep : \A j \in keep : j <= k
         IN [i \in 1..(b - a + 1) |->
                IF s[a + i - 1] \in 65..90 THEN s[a + i - 1] + 32 ELSE s[a + i - 1]]

RECURSIVE TotalTokens(_)
TotalTokens(ss) ==
    IF ss = <<>> THEN 0 ELSE Cardinality(TokenSpans(Head(ss))) + TotalTokens(Tail(ss))

RECURSIVE TotalIndices(_)
TotalIndices(conc) ==
    IF conc = <<>> THEN 0 ELSE Len(Head(conc).indices) + TotalIndices(Tail(conc))

\* How often x occurs in the sequence q.
CountIn(q, x) == Cardinality({ j \in 1..Len(q) : q[j] = x })

\* How many tokens of sentence number i (from 0) have the normal form w.
Occurrences(w, i) ==
    Cardinality({ sp \in TokenSpans(istream[i + 1]) : NormalForm(istream[i + 1], sp) = w })

\* a is before b in code-point-wise lexicographic order.
LexBefore(a, b) ==
    \E k \in 1..(Len(a) + 1) :
        /\ \A j \in 1..(k - 1) : j <= Len(b) /\ a[j] = b[j]
        /\ k <= Len(b)
        /\ (k > Len(a) \/ a[k] < b[k])

Words(conc) == [i \in 1..Len(conc) |-> conc[i].word]

Returned(r) == pc[r] = "Done"

----------------------------------------------------------------------------
\* C1 (completeness): in the concordance a call returns, every
\* whitespace-delimited token of every sentence is found under its normal form
\* (the empty string included) with the index of its sentence, and the index
\* lists together have as many entries as the input has tokens.
C1_Completeness ==
    \A r \in Runs : Returned(r) =>
        /\ TotalIndices(result[r]) = TotalTokens(istream)
        /\ \A i \in 1..Len(istream) : \A sp \in TokenSpans(istream[i]) :
              \E e \in 1..Len(result[r]) :
                  /\ result[r][e].word = NormalForm(istream[i], sp)
                  /\ CountIn(result[r][e].indices, i - 1) >= 1

\* A call has returned on an input with a punctuation-only token among others.
C1_Witness ==
    /\ Returned(1)
    /\ TotalTokens(istream) >= 2
    /\ \E e \in 1..Len(result[1]) : result[1][e].word = <<>>

\* C2 (count/index consistency): every entry of a returned concordance has
\* count = len(indices).
C2_CountIsLength ==
    \A r \in Runs : Returned(r) =>
        \A e \in 1..Len(result[r]) : result[r][e].count = Len(result[r][e].indices)

\* A returned entry whose word occurred more than once.
C2_Witness ==
    /\ Returned(1)
    /\ \E e \in 1..Len(result[1]) : result[1][e].count >= 2

\* C3 (monotone indices): every index list of a returned concordance is
\* non-decreasing.
C3_IndicesNonDecreasing ==
    \A r \in Runs : Returned(r) =>
        \A e \in 1..Len(result[r]) :
            LET ix == result[r][e].indices IN
            \A j \in 1..(Len(ix) - 1) : ix[j] <= ix[j + 1]

\* A returned index list that spans two sentences.
C3_Witness ==
    /\ Returned(1)
    /\ \E e \in 1..Len(result[1]) :
          LET ix == result[1][e].indices IN
          \E j \in 1..(Len(ix) - 1) : ix[j] < ix[j + 1]

\* C4 (ordering): once sorted, the entries are in strictly ascending
\* lexicographic order of the word (so the keys are unique), whatever the
\* insertion order of count_words' table, and they are the table's entries: no
\* key is added or removed.  A table filled in the order b, a is returned as
\* a, b.
C4_SortedByWord ==
    \A r \in Runs :
        /\ pc[r] \in {"Ordered", "Done"} =>
              /\ \A i \in 1..(Len(ordered_count[r]) - 1) :
                    LexBefore(ordered_count[r][i][1], ordered_count[r][i + 1][1])
              /\ Len(ordered_count[r]) = Len(word_count[r])
              /\ Keys(ordered_count[r]) = Keys(word_count[r])
              /\ \A k \in Keys(word_count[r]) :
                    DictGet(ordered_count[r], k) = DictGet(word_count[r], k)
        /\ Returned(r) =>
              /\ Words(result[r]) = [i \in 1..Len(ordered_count[r]) |-> ordered_count[r][i][1]]
              /\ istream = <<<<98>>, <<97>>>> =>
                    /\ [i \in 1..Len(word_count[r]) |-> word_count[r][i][1]] = <<<<98>>, <<97>>>>
                    /\ Words(result[r]) = <<<<97>>, <<98>>>>

\* A returned concordance whose table was filled in descending order.
C4_Witness ==
    /\ Returned(1)
    /\ Len(word_count[1]) >= 2
    /\ LexBefore(word_count[1][2][1], word_count[1][1][1])

\* C5 (empty input): with zero sentences the call pulls nothing, stores
\* nothing, can always go on to the end of the stream, and returns the empty
\* concordance.
C5_EmptyInput ==
    istream = <<>> =>
        \A r \in Runs :
            /\ emitted[r] = <<>> /\ word_count[r] = <<>> /\ result[r] = <<>>
            /\ pc[r] = "Streaming" => ENABLED Exhausted(r)
            /\ pc[r] = "Aggregated" => ENABLED Sort(r)
            /\ pc[r] = "Ordered" => ENABLED Return(r)

\* A call on zero sentences has returned.
C5_Witness == istream = <<>> /\ Returned(1) /\ result[1] = <<>>

\* C6 (determinism): two calls on the same sentence sequence, the second made
\* after the first has returned, return the same concordance: the same words in
\* the same order with the same counts and the same index sequences.
C6_Deterministic ==
    (Returned(1) /\ Returned(2)) => result[1] = result[2]

\* Both calls have returned, on an input with a repeated word.
C6_Witness ==
    /\ Returned(1) /\ Returned(2)
    /\ \E e \in 1..Len(result[2]) : result[2][e].count >= 2

Entry(w, c, ix) == [word |-> w, count |-> c, indices |-> ix]

\* C7 as stated (punctuation-only token): for the input ["—"] the call returns
\* exactly one entry, under the empty string, with count 1 and indices [0].
C7_EmDashUnderEmptyKey ==
    \A r \in Runs :
        (istream = <<EmDash>> /\ Returned(r)) => result[r] = <<Entry(<<>>, 1, <<0>>)>>

\* C7 as amended: the em-dash is not in string.punctuation, so for the input
\* ["—"] the one entry returned is under the em-dash itself, with count 1 and
\* indices [0]; a token of ASCII punctuation alone (["-"]) is tallied under the
\* empty string, with count 1 and indices [0].
C7_EmDashKept ==
    \A r \in Runs :
        /\ (istream = <<EmDash>> /\ Returned(r)) => result[r] = <<Entry(EmDash, 1, <<0>>)>>
        /\ (istream = <<Hyphen>> /\ Returned(r)) => result[r] = <<Entry(<<>>, 1, <<0>>)>>

\* The call on ["—"] has returned.
C7_Witness == istream = <<EmDash>> /\ Returned(1) /\ Len(result[1]) = 1

\* C8 (end-to-end scenario): ["The cat sat.", "The dog sat!"] gives exactly
\* cat -> (1, [0]), dog -> (1, [1]), sat -> (2, [0, 1]), the -> (2, [0, 1]),
\* in that order.
C8_CatDogScenario ==
    \A r \in Runs :
        (istream = <<TheCatSat, TheDogSat>> /\ Returned(r)) =>
            result[r] = << Entry(<<99, 97, 116>>, 1, <<0>>),
                           Entry(<<100, 111, 103>>, 1, <<1>>),
                           Entry(<<115, 97, 116>>, 2, <<0, 1>>),
                           Entry(<<116, 104, 101>>, 2, <<0, 1>>) >>

\* The call on the two sentences has returned its four entries.
C8_Witness ==
    istream = <<TheCatSat, TheDogSat>> /\ Returned(1) /\ Len(result[1]) = 4

\* C9 (no deduplication): a word that occurs k times in sentence i has i
\* exactly k times in its index list, and its count is the number of all its
\* occurrences; ["A a A."] gives the single entry a -> (3, [0, 0, 0]).
C9_NoDeduplication ==
    \A r \in Runs : Returned(r) =>
        /\ \A e \in 1..Len(result[r]) :
              /\ \A i \in 0..(Len(istream) - 1) :
                    CountIn(result[r][e].indices, i) = Occurrences(result[r][e].word, i)
              /\ result[r][e].count =
                    Cardinality({ sp \in UNION { {i} \X TokenSpans(istream[i]) : i \in 1..Len(istream) } :
                                    NormalForm(istream[sp[1]], sp[2]) = result[r][e].word })
        /\ istream = <<AaA>> => result[r] = <<Entry(<<97>>, 3, <<0, 0, 0>>)>>

\* A returned index list that holds the same sentence index more than once.
C9_Witness ==
    /\ Returned(1)
    /\ \E e \in 1..Len(result[1]) : CountIn(result[1][e].indices, 0) >= 2

\* The sentences joined by one space.
RECURSIVE Joined(_)
Joined(ss) ==
    IF ss = <<>> THEN <<>>
    ELSE IF Len(ss) = 1 THEN Head(ss)
    ELSE Head(ss) \o <<32>> \o Joined(Tail(ss))

\* The normal forms of the tokens of a text, from left to right.
RECURSIVE SpansInOrder(_)
SpansInOrder(spans) ==
    IF spans = {} THEN <<>>
    ELSE LET first == CHOOSE sp \in spans : \A o \in spans : sp[1] <= o[1]
         IN <<first>> \o SpansInOrder(spans \ {first})

NormalForms(text) ==
    LET sps == SpansInOrder(TokenSpans(text)) IN
    [i \in 1..Len(sps) |-> NormalForm(text, sps[i])]

IsPrefix(a, b) == Len(a) <= Len(b) /\ a = SubSeq(b, 1, Len(a))

EmittedWords(r) == [i \in 1..Len(emitted[r]) |-> emitted[r][i][1]]

\* The pairs split_sentences has emitted for sentence number i, in order.
EmittedOf(r, i) == SelectSeq(emitted[r], LAMBDA p : p[2] = i)

\* C10 (word order of the split stage): the words split_sentences emits are, in
\* order, the normal forms of the tokens of the sentences joined by whitespace
\* (a prefix of them while the stream runs, all of them once it is exhausted);
\* the tokens of one sentence are emitted from left to right, and all tokens of
\* sentence i before any token of sentence i+1.
C10_SplitOrder ==
    \A r \in Runs :
        /\ IsPrefix(EmittedWords(r), NormalForms(Joined(istream)))
        /\ pc[r] \in {"Aggregated", "Ordered", "Done"} =>
              EmittedWords(r) = NormalForms(Joined(istream))
        /\ \A j \in 1..(Len(emitted[r]) - 1) : emitted[r][j][2] <= emitted[r][j + 1][2]
        /\ \A i \in 0..(Len(istream) - 1) :
              IsPrefix([j \in 1..Len(EmittedOf(r, i)) |-> EmittedOf(r, i)[j][1]],
                       NormalForms(istream[i + 1]))

\* The stream is exhausted after two sentences with three different words.
C10_Witness ==
    /\ pc[1] = "Aggregated"
    /\ Len(istream) >= 2
    /\ Len(emitted[1]) >= 3
    /\ emitted[1][1][1] # emitted[1][2][1]
    /\ emitted[1][1][2] < emitted[1][Len(emitted[1])][2]

\* C11 (sentence source pass-through): stream_tokens yields the elements of
\* the list from_text returned, in the same order and with the same text,
\* nothing added, dropped, duplicated or changed, and then ends.
C11_PassThrough ==
    /\ IsPrefix(yielded, tokenized)
    /\ tok_pc = "ended" => yielded = tokenized
    /\ tok_pc = "idle" => yielded = <<>>

\* The stream has ended after two sentences, one with blanks at its ends.
C11_Witness ==
    /\ tok_pc = "ended"
    /\ Len(yielded) = 2
    /\ \E i \in 1..2 : yielded[i] # <<>> /\ Head(yielded[i]) \in whitespace

\* The accumulator's list of a word, empty when the word is not a key.
ListOf(h, id, w) == IF w \in DOMAIN h[id] THEN h[id][w] ELSE <<>>

\* What tally_words has just emitted: the word of the pair it consumed, the
\* number of pairs with that word consumed so far, and the accumulator's list
\* for the word, which ends in the pair's index.
TallyEmission(r) ==
    (pc[r] = "Streaming" /\ stage[r] = "count") =>
        /\ tuple[r][1] = pair[r][1]
        /\ tuple[r][2] = CountIn(EmittedWords(r), pair[r][1])
        /\ tuple[r][3] = <<tally_hash[r], pair[r][1]>>
        /\ Len(Deref(heap, tuple[r][3])) = tuple[r][2]
        /\ Deref(heap, tuple[r][3])[tuple[r][2]] = pair[r][2]

\* A step of tally_words appends the pair's index to the word's list (an empty
\* one when the word is new) and leaves the other lists alone.
TallyAppends(r) ==
    (stage[r] = "tally" /\ stage'[r] = "count") =>
        /\ heap'[tally_hash[r]][pair[r][1]] =
              Append(ListOf(heap, tally_hash[r], pair[r][1]), pair[r][2])
        /\ DOMAIN heap'[tally_hash[r]] = DOMAIN heap[tally_hash[r]] \cup {pair[r][1]}
        /\ \A w \in DOMAIN heap[tally_hash[r]] \ {pair[r][1]} :
              heap'[tally_hash[r]][w] = heap[tally_hash[r]][w]

\* C12 (tally emission): for each pair (word, idx), tally_words appends idx to
\* accumulator[word], creating the list when absent, and emits (word, count,
\* indices) with count the number of pairs with that word consumed so far, the
\* current one included, and indices the accumulator's list, ending in idx.
C12_TallyEmission ==
    /\ [](\A r \in Runs : TallyEmission(r))
    /\ [][\A r \in Runs : TallyAppends(r)]_vars

\* tally_words has just emitted the second tuple of a word.
C12_Witness ==
    /\ pc[1] = "Streaming" /\ stage[1] = "count"
    /\ tuple[1][2] = 2
    /\ Len(word_count[1]) >= 2

\* The place of the last tuple of the word k in the stream q.
LastOf(q, k) ==
    CHOOSE i \in 1..Len(q) : q[i][1] = k /\ \A j \in (i + 1)..Len(q) : q[j][1] # k

\* C13 (the aggregator keeps the last tuple): the table count_words returns for
\* a stream of tuples has as keys exactly the words of the stream, each once,
\* and as the value of a word the (count, indices) of its last tuple.
C13_LastTupleKept ==
    pc[1] = "Aggregated" =>
        /\ Keys(word_count[1]) = { tallied[i][1] : i \in 1..Len(tallied) }
        /\ Len(word_count[1]) = Cardinality(Keys(word_count[1]))
        /\ \A k \in Keys(word_count[1]) :
              DictGet(word_count[1], k) =
                  <<tallied[LastOf(tallied, k)][2], tallied[LastOf(tallied, k)][3]>>

\* count_words has returned on a stream where a later tuple of a word differs
\* from an earlier one.
C13_Witness ==
    /\ pc[1] = "Aggregated"
    /\ \E i, j \in 1..Len(tallied) :
          i < j /\ tallied[i][1] = tallied[j][1] /\ tallied[i] # tallied[j]
    /\ Len(word_count[1]) >= 2

PhaseSteps ==
    { <<"NotStarted", "Streaming">>, <<"Streaming", "Aggregated">>,
      <<"Aggregated", "Ordered">>, <<"Ordered", "Done">> }

Aggregated(r) == pc[r] \in {"Aggregated", "Ordered", "Done"}

\* Once count_words has returned, the source is exhausted and every token of
\* the input has been emitted, tallied and stored, once.
DrainedOnce(r) ==
    Aggregated(r) =>
        /\ pulled[r] = Len(Source(r))
        /\ words[r] = <<>> /\ stage[r] = "split"
        /\ Len(emitted[r]) = TotalTokens(Source(r))
        /\ TotalIndices(ReadItems(heap, word_count[r])) = TotalTokens(Source(r))

\* A phase changes to the next one only, and after aggregation nothing more
\* is pulled from any stage.
LinearStep(r) ==
    /\ pc'[r] # pc[r] => <<pc[r], pc'[r]>> \in PhaseSteps
    /\ Aggregated(r) =>
          /\ pulled'[r] = pulled[r] /\ emitted'[r] = emitted[r]
          /\ words'[r] = words[r] /\ tuple'[r] = tuple[r]
          /\ word_count'[r] = word_count[r]
          /\ heap'[tally_hash[r]] = heap[tally_hash[r]]

\* C14 (linear run): a call goes through NotStarted, Streaming, Aggregated,
\* Ordered, Done in that order, without going back or skipping, and reaches
\* Done; the stream is consumed once and to its end before sorting starts, and
\* nothing is pulled after aggregation.
C14_LinearRun ==
    /\ [][\A r \in Runs : LinearStep(r)]_vars
    /\ [](\A r \in Runs : DrainedOnce(r))
    /\ <>(\A r \in Runs : pc[r] = "Done")

\* Both calls are done, on two sentences with tokens.
C14_Witness ==
    /\ \A r \in Runs : pc[r] = "Done"
    /\ Len(istream) >= 2
    /\ Len(emitted[1]) >= 2

\* A call that failed has returned nothing and takes no further step.
Aborted(r) ==
    pc[r] = "Failed" =>
        /\ result[r] = <<>> /\ ordered_count[r] = <<>>
        /\ ~ ENABLED Step(r)
        /\ ~ ENABLED SourceRaises(r)

\* C15 (all-or-nothing on failure): when the source raises while the pipeline
\* is streaming, the failure leaves generate_concordance: the call stays
\* failed, returns no concordance and pulls nothing more; a concordance that is
\* returned is never a partial one, no sentence having been skipped.
C15_AllOrNothing ==
    /\ [](\A r \in Runs :
            /\ Aborted(r)
            /\ Returned(r) => Len(emitted[r]) = TotalTokens(Source(r)))
    /\ [][\A r \in Runs :
            pc[r] = "Failed" =>
                /\ pc'[r] = "Failed" /\ result'[r] = result[r]
                /\ pulled'[r] = pulled[r] /\ emitted'[r] = emitted[r]
                /\ word_count'[r] = word_count[r]]_vars

\* The source has raised after a sentence whose words were already stored.
C15_Witness ==
    /\ pc[1] = "Failed"
    /\ pulled[1] >= 1 /\ pulled[1] < Len(istream)
    /\ word_count[1] # <<>>

\* While a token of sentence i is on its way through tally_words and
\* count_words, and while tokens of sentence i are still to come, i + 1
\* sentences have been pulled.
NoSentenceAhead(r) ==
    pc[r] = "Streaming" =>
        /\ stage[r] \in {"tally", "count"} =>
              /\ pulled[r] = pair[r][2] + 1
              /\ emitted[r][Len(emitted[r])] = pair[r]
        /\ words[r] # <<>> => pulled[r] = idx[r] + 1

\* A sentence is pulled one at a time, when every token of the sentences
\* before it has been emitted, tallied and stored.
PullsWhenConsumed(r) ==
    pulled'[r] # pulled[r] =>
        /\ pulled'[r] = pulled[r] + 1
        /\ words[r] = <<>> /\ stage[r] = "split"
        /\ Len(emitted[r]) = TotalTokens(SubSeq(Source(r), 1, pulled[r]))
        /\ TotalIndices(ReadItems(heap, word_count[r])) = Len(emitted[r])

\* C16 (no look-ahead): when a token of sentence i is emitted, tallied and
\* stored, exactly i + 1 sentences have been pulled from the source; sentence
\* i + 1 is pulled only after every token of sentence i has been emitted and
\* consumed downstream.
C16_NoLookAhead ==
    /\ [](\A r \in Runs : NoSentenceAhead(r))
    /\ [][\A r \in Runs : PullsWhenConsumed(r)]_vars

\* The second sentence has been pulled after the two tokens of the first were
\* stored, and its first token is on its way.
C16_Witness ==
    /\ pc[1] = "Streaming" /\ stage[1] = "count"
    /\ pulled[1] = 2
    /\ Len(emitted[1]) = 3
    /\ emitted[1][2][2] = 0

\* The concordance built by one fold over the tokens, word -> (count, indices)
\* with lists of its own, put in order of the words.
RECURSIVE TokenPairs(_, _)
TokenPairs(ss, i) ==
    IF ss = <<>> THEN <<>>
    ELSE LET nf == NormalForms(Head(ss)) IN
         [j \in 1..Len(nf) |-> <<nf[j], i>>] \o TokenPairs(Tail(ss), i + 1)

RECURSIVE FoldPairs(_, _)
FoldPairs(ps, acc) ==
    IF ps = <<>> THEN acc
    ELSE LET w == Head(ps)[1]
             at == { k \in 1..Len(acc) : acc[k].word = w }
         IN FoldPairs(Tail(ps),
                IF at = {} THEN Append(acc, Entry(w, 1, <<Head(ps)[2]>>))
                ELSE [k \in 1..Len(acc) |->
                        IF k \in at
                        THEN Entry(w, acc[k].count + 1, Append(acc[k].indices, Head(ps)[2]))
                        ELSE acc[k]])

RECURSIVE InWordOrder(_)
InWordOrder(es) ==
    IF es = {} THEN <<>>
    ELSE LET first == CHOOSE e \in es : \A o \in es \ {e} : LexBefore(e.word, o.word)
         IN <<first>> \o InWordOrder(es \ {first})

FoldConcordance(ss) ==
    LET acc == FoldPairs(TokenPairs(ss, 0), <<>>) IN
    InWordOrder({ acc[k] : k \in 1..Len(acc) })

\* C17 (run isolation): when the steps of two calls on different inputs are
\* interleaved in any order, each call returns the concordance it returns
\* alone, and what it returned does not change while the other call goes on.
C17_RunIsolation ==
    \A r \in Runs : Returned(r) =>
        /\ result[r] = FoldConcordance(Source(r))
        /\ ReadItems(heap, ordered_count[r]) = result[r]
        /\ \A q \in Runs \ {r} : tally_hash[q] # tally_hash[r]

\* The first call has returned while the second, on other sentences with a
\* word in common, is still streaming.
C17_Witness ==
    /\ Returned(1) /\ pc[2] = "Streaming"
    /\ istream # other
    /\ Len(emitted[2]) >= 1
    /\ \E e \in 1..Len(result[1]) : result[1][e].word = emitted[2][1][1]

\* C18 (aliasing does not affect the result): the concordance a call returns
\* is the one a single fold gives that builds word -> (count, indices) with
\* lists of its own, although tally_words emits references to lists that later
\* appends change.
C18_SameAsFold ==
    \A r \in Runs : Returned(r) => result[r] = FoldConcordance(istream)

\* A call has returned a word whose list was appended to after its first
\* tuple was stored.
C18_Witness ==
    /\ Returned(1)
    /\ \E e \in 1..Len(result[1]) : result[1][e].count >= 2
    /\ Len(result[1]) >= 2

\* C19 (aggregator invariant under aliasing): after every completed iteration
\* of the count_words loop, every entry (count, indices) of its table has
\* count = len(indices), and its list is the accumulator's list for the word,
\* although the lists are shared with the accumulator and still appended to.
C19_TableConsistent ==
    \A r \in Runs :
        (pc[r] # "NotStarted" /\ stage[r] # "count") =>
            /\ \A e \in 1..Len(word_count[r]) :
                  LET w == word_count[r][e][1]
                      v == word_count[r][e][2]
                  IN /\ v[2] = <<tally_hash[r], w>>
                     /\ w \in DOMAIN heap[tally_hash[r]]
                     /\ v[1] = Len(heap[tally_hash[r]][w])
                     /\ Deref(heap, v[2]) = heap[tally_hash[r]][w]
            /\ Keys(word_count[r]) = DOMAIN heap[tally_hash[r]]

\* An iteration has completed for a word stored before, whose list has grown
\* since its first tuple, with another word in the table.
C19_Witness ==
    /\ pc[1] = "Streaming" /\ stage[1] = "split"
    /\ Len(word_count[1]) >= 2
    /\ \E e \in 1..Len(word_count[1]) : word_count[1][e][2][1] >= 2

\* C20 (sentence index assignment): the index of every pair split_sentences
\* emits is the zero-based position of its sentence in the input; a sentence
\* without tokens emits nothing and still takes its position, so later indices
\* are not shifted; every index of the output is in 0 .. number of sentences - 1.
C20_IndexIsPosition ==
    \A r \in Runs :
        /\ \A j \in 1..Len(emitted[r]) :
              /\ emitted[r][j][2] \in 0..(Len(istream) - 1)
              /\ \E sp \in TokenSpans(istream[emitted[r][j][2] + 1]) :
                    NormalForm(istream[emitted[r][j][2] + 1], sp) = emitted[r][j][1]
        /\ Aggregated(r) =>
              \A i \in 0..(Len(istream) - 1) :
                  [j \in 1..Len(EmittedOf(r, i)) |-> EmittedOf(r, i)[j][1]]
                      = NormalForms(istream[i + 1])
        /\ Returned(r) =>
              \A e \in 1..Len(result[r]) : \A j \in 1..Len(result[r][e].indices) :
                  result[r][e].indices[j] \in 0..(Len(istream) - 1)

\* The stream is exhausted on an input whose first sentence has no token and
\* whose second has one.
C20_Witness ==
    /\ pc[1] = "Aggregated"
    /\ Len(istream) >= 2
    /\ TokenSpans(istream[1]) = {}
    /\ emitted[1] # <<>> /\ emitted[1][1][2] = 1

====
